---- MODULE Spec2Model ----
(***************************************************************************)
(* The MCTS search engine of mtcs_v2.py: the Node bookkeeping, UCB1        *)
(* selection, depth-limited expansion, reward shaping, backpropagation    *)
(* and the mcts_trial loop.                                                *)
(*                                                                         *)
(* Rewards and success rates are held in hundredths (1.0 is 100, -0.2 is   *)
(* -20), Q is an exact fraction [num, den] in lowest terms.  Node ids are  *)
(* positions in the heap `nodes`; parent 0 is None, state 0 is None, code  *)
(* 0 is the empty string, evaluation <<>> is None.                         *)
(***************************************************************************)
EXTENDS Integers, Sequences, FiniteSets, TLC

\* ---- bounds of the model ----
MaxSteps == 3
MaxDepthLimit == 3
\* bounds of the Node-level specification
MaxNodes == 3
MaxVisits == 3
MaxSamples == 1

\* ---- program constants ----
BranchingFactor == 2
RateScale == 100
TimeoutScore == -20
FullScore == 100

Statuses == {"ok", "timeout", "other-failure"}

\* what the Worker and the Evaluator report on an empty artifact: the syntax
\* check fails, no sample passes, the full run fails
EmptyArtifact ==
    [syntax_ok |-> FALSE, rate |-> 0, status |-> "other-failure", msg_len |-> 120]

\* the Worker and Evaluator results a simulation of the search run may see;
\* msg_len is the length of testreport.message plus that of str(fullreport)
Outcomes ==
    { [syntax_ok |-> TRUE, rate |-> 0, status |-> "other-failure", msg_len |-> 300],
      [syntax_ok |-> TRUE, rate |-> 60, status |-> "ok", msg_len |-> 40],
      [syntax_ok |-> TRUE, rate |-> 100, status |-> "timeout", msg_len |-> 40],
      [syntax_ok |-> TRUE, rate |-> 100, status |-> "ok", msg_len |-> 40],
      EmptyArtifact }

\* the results the termination specifications draw from: a failure, a
\* timeout, a success
FairOutcomes ==
    { [syntax_ok |-> TRUE, rate |-> 60, status |-> "ok", msg_len |-> 40],
      [syntax_ok |-> TRUE, rate |-> 100, status |-> "timeout", msg_len |-> 40],
      [syntax_ok |-> TRUE, rate |-> 100, status |-> "ok", msg_len |-> 40] }

\* every Evaluator result: a success rate in [0, 1] and a full status
AllOutcomes ==
    [syntax_ok : {TRUE}, rate : 0..RateScale, status : Statuses, msg_len : {40}]
       \cup {EmptyArtifact}

\* the rewards the Node-level specification hands to the Node methods
ApiRewards == {0, 50, 100}

\* the values it hands to update_score (select reads visits, never score)
ApiValues == {50}

VARIABLES nodes, root, pc, step, current, idx, result, sm, log, calls, gen,
          prompt, max_steps, depth_limit

vars == <<nodes, root, pc, step, current, idx, result, sm, log, calls, gen,
          prompt, max_steps, depth_limit>>

\* ---- exact fractions ----
RECURSIVE Gcd(_, _)
Gcd(a, b) == IF b = 0 THEN a ELSE Gcd(b, a % b)

Abs(x) == IF x < 0 THEN -x ELSE x

Frac(n, d) ==
    LET g == Gcd(Abs(n), d)
    IN  [num |-> n \div g, den |-> d \div g]

RECURSIVE SeqSum(_)
SeqSum(s) == IF s = <<>> THEN 0 ELSE Head(s) + SeqSum(Tail(s))

SeqMin(s) == CHOOSE m \in {s[i] : i \in 1..Len(s)} : \A i \in 1..Len(s) : m <= s[i]

\* ---- Node ----
Node(state, parent, depth) ==
    [state |-> state, parent |-> parent, children |-> <<>>, visits |-> 0,
     score |-> 0, evaluation |-> <<>>, reward_samples |-> <<>>,
     Q |-> Frac(0, 1), depth |-> depth]

\* add_child giving the child the depth of its parent
add_child_same_depth(ns, p, child_state) ==
    LET c == Len(ns) + 1
        withChild == Append(ns, Node(child_state, p, ns[p].depth))
    IN  [withChild EXCEPT ![p].children = Append(@, c)]

\* add_child handing the parent's evaluation to the child
add_child_inheriting_evaluation(ns, p, child_state) ==
    LET c == Len(ns) + 1
        child == [Node(child_state, p, ns[p].depth + 1)
                     EXCEPT !.evaluation = ns[p].evaluation]
    IN  [Append(ns, child) EXCEPT ![p].children = Append(@, c)]

\* add_child leaving the child's parent unset
add_child_orphan(ns, p, child_state) ==
    LET c == Len(ns) + 1
        withChild == Append(ns, Node(child_state, 0, ns[p].depth + 1))
    IN  [withChild EXCEPT ![p].children = Append(@, c)]

\* ns with a new child of node p appended to the heap and to p.children
add_child(ns, p, child_state) ==
    LET c == Len(ns) + 1
        withChild == Append(ns, Node(child_state, p, ns[p].depth + 1))
    IN  [withChild EXCEPT ![p].children = Append(@, c)]

\* Q as the plain mean of the samples
QOf_mean_only(samples) == Frac(SeqSum(samples), Len(samples))

\* (mean + min) / 2 of the samples, as (sum + len * min) / (2 * len)
QOf(samples) ==
    Frac(SeqSum(samples) + Len(samples) * SeqMin(samples), 2 * Len(samples))

\* the node after add_reward: the sample appended, Q recomputed
\* add_reward overwriting the samples recorded so far
rewarded_replacing(node, reward) ==
    [node EXCEPT !.reward_samples = <<reward>>,
                 !.Q = QOf(<<reward>>)]

rewarded(node, reward) ==
    [node EXCEPT !.reward_samples = Append(@, reward),
                 !.Q = QOf(Append(node.reward_samples, reward))]

add_reward(ns, n, reward) == [ns EXCEPT ![n] = rewarded(@, reward)]

RECURSIVE update_score(_, _, _)
update_score(ns, n, value) ==
    LET here == [ns EXCEPT ![n].score = @ + value, ![n].visits = @ + 1]
    IN  IF ns[n].parent # 0 THEN update_score(here, ns[n].parent, value) ELSE here

\* backpropagate running the additive update_score walk as well
RECURSIVE add_rewards(_, _, _)
add_rewards(ns, n, reward) ==
    IF n = 0 THEN ns
    ELSE add_rewards(add_reward(ns, n, reward), ns[n].parent, reward)

backpropagate_with_score(ns, n, reward) ==
    update_score(add_rewards(ns, n, reward), n, reward)

\* backpropagate stopping below the root (while node.parent is not None)
RECURSIVE backpropagate_below_root(_, _, _)
backpropagate_below_root(ns, n, reward) ==
    IF ns[n].parent = 0 THEN ns
    ELSE backpropagate_below_root(add_reward(ns, n, reward), ns[n].parent, reward)

RECURSIVE backpropagate(_, _, _)
backpropagate(ns, n, reward) ==
    IF n = 0 THEN ns
    ELSE backpropagate(add_reward(ns, n, reward), ns[n].parent, reward)

\* ---- UCB1 selection ----
\* 1.4 * sqrt(ln(P) / (v + 0.01)) in units of 10^-5, rounded to nearest,
\* for parent visits P (row) and node visits v (column) in 1..6
ExploreTable ==
    << <<0, 0, 0, 0, 0, 0>>,
       <<115979, 82213, 67183, 58206, 52074, 47545>>,
       <<146012, 103503, 84580, 73279, 65559, 59857>>,
       <<164019, 116267, 95011, 82316, 73644, 67239>>,
       <<176728, 125276, 102372, 88694, 79350, 72448>>,
       <<186469, 132181, 108015, 93583, 83724, 76442>> >>

Explore(P, v) == ExploreTable[P][v]

\* the priority of node n: +infinity, or the fraction num / den in units of
\* 10^-5 (Q is in hundredths, so Q / visits is Q.num * 1000 / (Q.den * visits))
ucb1(ns, n) ==
    IF ns[n].visits = 0
    THEN [inf |-> TRUE, num |-> 0, den |-> 1]
    ELSE LET v == ns[n].visits
             q == ns[n].Q
         IN  [inf |-> FALSE,
              num |-> q.num * 1000 + Explore(ns[ns[n].parent].visits, v) * q.den * v,
              den |-> q.den * v]

\* a > b on priorities (float comparison: inf > inf is false)
Greater(a, b) ==
    IF a.inf THEN ~b.inf
    ELSE ~b.inf /\ a.num * b.den > b.num * a.den

\* max keeping the later of two children of equal priority
RECURSIVE max_from_last(_, _, _, _)
max_from_last(ns, kids, i, best) ==
    IF i > Len(kids) THEN best
    ELSE max_from_last(ns, kids, i + 1,
                       IF Greater(ucb1(ns, best), ucb1(ns, kids[i])) THEN best ELSE kids[i])

\* Python's max(iterable, key=...): the first element with the largest key
RECURSIVE max_from(_, _, _, _)
max_from(ns, kids, i, best) ==
    IF i > Len(kids) THEN best
    ELSE max_from(ns, kids, i + 1,
                  IF Greater(ucb1(ns, kids[i]), ucb1(ns, best)) THEN kids[i] ELSE best)

\* select returning the last child
select_last(ns, p) == ns[p].children[Len(ns[p].children)]

select(ns, p) == max_from(ns, ns[p].children, 2, ns[p].children[1])

\* ---- expansion ----
\* the loop of expand running over the first completion only
add_children_first_only(ns, p, choices) ==
    IF choices = <<>> THEN ns ELSE add_child(ns, p, Head(choices))

\* ns after the loop of expand: one child per completion, in completion order
RECURSIVE add_children(_, _, _)
add_children(ns, p, choices) ==
    IF choices = <<>> THEN ns
    ELSE add_children(add_child(ns, p, Head(choices)), p, Tail(choices))

\* the depth test of expand with > in place of >=
depth_limit_exceeded(ns, n, limit) == ns[n].depth > limit

\* the test at the head of expand
depth_limit_reached(ns, n, limit) == ns[n].depth >= limit

\* response.choices of one Generator call asking for n completions
Choices(first, n) == [i \in 1..n |-> first + i]

\* ---- the Generator context of expand ----
\* length of the text of completion k (the Generator returns texts on both
\* sides of the 100-character limit)
CandidateLen(k) ==
    CASE k % 4 = 0 -> 60
      [] k % 4 = 1 -> 100
      [] k % 4 = 2 -> 101
      [] k % 4 = 3 -> 250

\* length of the text summarize_evaluation returns for a text of length len:
\* text[:100] + '...' + text[-100:] when len > 100
summarize_evaluation(len) ==
    IF len > 100 THEN 100 + 3 + 100 ELSE len

\* length of an evaluation text (its last component)
EvaluationLen(evaluation) == evaluation[Len(evaluation)]

\* the nodes the while loop of build_prompt_with_feedback visits, from n
\* upwards, the root (parent is None) left out
RECURSIVE feedback_nodes(_, _)
feedback_nodes(ns, n) ==
    IF ns[n].parent = 0 THEN <<>>
    ELSE <<n>> \o feedback_nodes(ns, ns[n].parent)

Reverse(s) == [i \in 1..Len(s) |-> s[Len(s) + 1 - i]]

\* summarized_state + current_node.evaluation raises TypeError on None
prompt_raises(ns, n) ==
    \E i \in 1..Len(feedback_nodes(ns, n)) :
       ns[feedback_nodes(ns, n)[i]].evaluation = <<>>

\* the messages of build_prompt_with_feedback: the problem, the history
\* entries in reversed collection order, the closing instruction; an entry
\* holds the length of its summarized state and of its evaluation text
build_prompt_with_feedback(ns, n) ==
    LET collected == feedback_nodes(ns, n)
        conversation_history ==
            [i \in 1..Len(collected) |->
                [role |-> "assistant", node |-> collected[i],
                 state_len |-> summarize_evaluation(CandidateLen(ns[collected[i]].state)),
                 evaluation_len |-> EvaluationLen(ns[collected[i]].evaluation)]]
        user == [role |-> "user", node |-> 0, state_len |-> 0, evaluation_len |-> 0]
    IN  <<user>> \o Reverse(conversation_history) \o <<user>>

\* ---- the Worker ----
\* the code worker returns for candidate out: out's code, or "" (0) when
\* verify_code_syntax fails
worker(out, syntax_ok) == IF syntax_ok THEN out ELSE 0

\* ---- reward shaping of simulate ----
\* the shaping without the timeout test on fully successful samples
Score_ignoring_timeout(rate, status) ==
    IF rate = RateScale
    THEN FullScore
    ELSE IF status = "timeout" THEN TimeoutScore ELSE rate

\* the shaping without the timeout test on failed samples
Score_rate_on_timeout(rate, status) ==
    IF rate = RateScale
    THEN IF status = "timeout" THEN TimeoutScore ELSE FullScore
    ELSE rate

\* the shaping treating every failed full run as a timeout
Score_penalising_failure(rate, status) ==
    IF rate = RateScale
    THEN IF status = "timeout" THEN TimeoutScore ELSE FullScore
    ELSE IF status # "ok" THEN TimeoutScore ELSE rate

Score(rate, status) ==
    IF rate = RateScale
    THEN IF status = "timeout" THEN TimeoutScore ELSE FullScore
    ELSE IF status = "timeout" THEN TimeoutScore ELSE rate

\* node.evaluation after simulate, with the length of the text: the fixed
\* 80-character timeout message, or the 43 characters of the f-string
\* around the two reports
Evaluation(rate, status, msg_len) ==
    IF rate = RateScale /\ status = "timeout"
    THEN <<"TIMEOUT", 80>>
    ELSE <<"report", rate, status, 43 + msg_len>>

\* Solution.to_submit_signal after eval()
to_submit_signal(rate, status) == rate = RateScale /\ status # "timeout"

\* ---- the search run ----
\* MCTS_v2(llm_model, problem, depth_limit=...) and the entry of
\* mcts_trial(problem, max_steps=...)
InitRun(StepLimits, DepthLimits) ==
    /\ nodes = <<Node(0, 0, 0)>>
    /\ root = 1
    /\ pc = "init"
    /\ step = 0
    /\ current = 0
    /\ idx = 0
    /\ result = 0
    /\ sm = <<>>
    /\ log = <<>>
    /\ calls = <<>>
    /\ gen = 0
    /\ prompt = <<>>
    /\ max_steps \in StepLimits
    /\ depth_limit \in DepthLimits

Init == InitRun(0..MaxSteps, 0..MaxDepthLimit)

\* the root built from initial_solution in place of initial_solution1
zero_shot_initialization_unrefined ==
    /\ pc = "init"
    /\ calls' = calls \o <<"llm", "rag", "llm">>
    /\ gen' = gen + 2
    /\ nodes' = Append(nodes, Node(gen + 1, 0, 0))
    /\ root' = Len(nodes) + 1
    /\ current' = Len(nodes) + 1
    /\ step' = 0
    /\ pc' = "loop"
    /\ UNCHANGED <<idx, result, sm, log, prompt, max_steps, depth_limit>>

zero_shot_initialization ==
    /\ pc = "init"
    /\ calls' = calls \o <<"llm", "rag", "llm">>
    /\ gen' = gen + 2
    /\ nodes' = Append(nodes, Node(gen + 2, 0, 0))
    /\ root' = Len(nodes) + 1
    /\ current' = Len(nodes) + 1
    /\ step' = 0
    /\ pc' = "loop"
    /\ UNCHANGED <<idx, result, sm, log, prompt, max_steps, depth_limit>>

\* the inner while loop of mcts_trial: one selection
descend ==
    /\ pc = "loop"
    /\ step < max_steps
    /\ nodes[current].children # <<>>
    /\ current' = select(nodes, current)
    /\ UNCHANGED <<nodes, root, pc, step, idx, result, sm, log, calls, gen,
                   prompt, max_steps, depth_limit>>

\* expand called without the descent to a leaf
expand_any_node ==
    /\ pc = "loop"
    /\ step < max_steps
    /\ IF depth_limit_reached(nodes, current, depth_limit)
       THEN /\ idx' = 1
            /\ pc' = "simulate"
            /\ UNCHANGED <<nodes, calls, gen, prompt>>
       ELSE /\ prompt' = build_prompt_with_feedback(nodes, current)
            /\ calls' = Append(calls, "llm")
            /\ gen' = gen + BranchingFactor
            /\ nodes' = add_children(nodes, current, Choices(gen, BranchingFactor))
            /\ idx' = 1
            /\ pc' = "simulate"
    /\ UNCHANGED <<root, step, current, result, sm, log, max_steps, depth_limit>>

expand ==
    /\ pc = "loop"
    /\ step < max_steps
    /\ nodes[current].children = <<>>
    /\ IF depth_limit_reached(nodes, current, depth_limit)
       THEN /\ idx' = 1
            /\ pc' = "simulate"
            /\ UNCHANGED <<nodes, calls, gen, prompt>>
       ELSE IF prompt_raises(nodes, current)
            THEN /\ pc' = "raised"
                 /\ UNCHANGED <<nodes, calls, gen, prompt, idx>>
            ELSE /\ prompt' = build_prompt_with_feedback(nodes, current)
                 /\ calls' = Append(calls, "llm")
                 /\ gen' = gen + BranchingFactor
                 /\ nodes' = add_children(nodes, current, Choices(gen, BranchingFactor))
                 /\ idx' = 1
                 /\ pc' = "simulate"
    /\ UNCHANGED <<root, step, current, result, sm, log, max_steps, depth_limit>>

\* simulate(child) for the idx-th child of current_node, and the test of its
\* to_submit_signal in mcts_trial
simulate_with(Outs) ==
    /\ pc = "simulate"
    /\ idx <= Len(nodes[current].children)
    /\ \E o \in Outs :
          LET child == nodes[current].children[idx]
              out == nodes[child].state
              code == worker(out, o.syntax_ok)
              score == Score(o.rate, o.status)
              evaluated == [nodes EXCEPT ![child].evaluation =
                                              Evaluation(o.rate, o.status, o.msg_len)]
          IN  /\ calls' = calls \o <<"fast_llm", "eval">>
              /\ sm' = Append(sm, [code |-> code, rate |-> o.rate, status |-> o.status])
              /\ nodes' = backpropagate(evaluated, child, score)
              /\ log' = Append(log, [out |-> out, score |-> score])
              /\ IF to_submit_signal(o.rate, o.status)
                 THEN /\ result' = child
                      /\ pc' = "solved"
                      /\ idx' = idx
                 ELSE /\ idx' = idx + 1
                      /\ UNCHANGED <<result, pc>>
    /\ UNCHANGED <<root, step, current, gen, prompt, max_steps, depth_limit>>

simulate == simulate_with(Outcomes)

\* the end of a step without step += 1
end_step_without_increment ==
    /\ pc = "simulate"
    /\ idx > Len(nodes[current].children)
    /\ pc' = "loop"
    /\ UNCHANGED <<nodes, root, step, current, idx, result, sm, log, calls, gen,
                   prompt, max_steps, depth_limit>>

\* the for loop over the children is over: step += 1
end_step ==
    /\ pc = "simulate"
    /\ idx > Len(nodes[current].children)
    /\ step' = step + 1
    /\ pc' = "loop"
    /\ UNCHANGED <<nodes, root, current, idx, result, sm, log, calls, gen,
                   prompt, max_steps, depth_limit>>

\* max steps reached: return None
exhausted ==
    /\ pc = "loop"
    /\ step >= max_steps
    /\ result' = 0
    /\ pc' = "exhausted"
    /\ UNCHANGED <<nodes, root, step, current, idx, sm, log, calls, gen,
                   prompt, max_steps, depth_limit>>

Next ==
    \/ zero_shot_initialization
    \/ descend
    \/ expand
    \/ simulate
    \/ end_step
    \/ exhausted

Spec == Init /\ [][Next]_vars

\* ---- the run under fairness ----
\* every collaborator call returns and the single control thread goes on
simulate_fair == simulate_with(FairOutcomes)

NextFair ==
    \/ zero_shot_initialization
    \/ descend
    \/ expand
    \/ simulate_fair
    \/ end_step
    \/ exhausted

SpecFair == Init /\ [][NextFair]_vars /\ WF_vars(NextFair)

\* runs that have steps left after the first step spent at the depth limit
InitCapped == InitRun({4, 5}, {1, 2, 3})

SpecCapped == InitCapped /\ [][NextFair]_vars /\ WF_vars(NextFair)

\* ---- one expansion under every Evaluator result ----
InitReward ==
    /\ Init
    /\ max_steps = 2
    /\ depth_limit = 1

simulate_any == simulate_with(AllOutcomes)

NextReward ==
    \/ zero_shot_initialization
    \/ descend
    \/ expand
    \/ simulate_any
    \/ end_step
    \/ exhausted

SpecReward == InitReward /\ [][NextReward]_vars

\* ---- the Node methods and select, called in any order ----
InitNode ==
    /\ nodes = <<Node(0, 0, 0)>>
    /\ root = 1
    /\ pc = "api"
    /\ step = 0
    /\ current = 0
    /\ idx = 0
    /\ result = 0
    /\ sm = <<>>
    /\ log = <<>>
    /\ calls = <<>>
    /\ gen = 0
    /\ prompt = <<>>
    /\ max_steps = 0
    /\ depth_limit = 0

api_add_child ==
    /\ Len(nodes) < MaxNodes
    /\ \E p \in 1..Len(nodes) : nodes' = add_child(nodes, p, gen + 1)
    /\ gen' = gen + 1
    /\ pc' = "api"
    /\ UNCHANGED <<root, step, current, idx, result, sm, log, calls,
                   prompt, max_steps, depth_limit>>

api_update_score ==
    /\ nodes[root].visits < MaxVisits
    /\ \E n \in 1..Len(nodes), value \in ApiValues :
          nodes' = update_score(nodes, n, value)
    /\ pc' = "api"
    /\ UNCHANGED <<root, step, current, idx, result, sm, log, calls, gen,
                   prompt, max_steps, depth_limit>>

api_backpropagate ==
    /\ Len(nodes[root].reward_samples) < MaxSamples
    /\ \E n \in 1..Len(nodes), reward \in ApiRewards :
          nodes' = backpropagate(nodes, n, reward)
    /\ pc' = "api"
    /\ UNCHANGED <<root, step, current, idx, result, sm, log, calls, gen,
                   prompt, max_steps, depth_limit>>

api_select ==
    /\ \E p \in 1..Len(nodes) :
          /\ nodes[p].children # <<>>
          /\ current' = select(nodes, p)
    /\ pc' = "selected"
    /\ UNCHANGED <<nodes, root, step, idx, result, sm, log, calls, gen,
                   prompt, max_steps, depth_limit>>

NextNode ==
    \/ api_add_child
    \/ api_update_score
    \/ api_backpropagate
    \/ api_select

SpecNode == InitNode /\ [][NextNode]_vars

\* ---- vocabulary of the properties ----
Ids == 1..Len(nodes)

\* n and its ancestors up to the root, in heap ns
RECURSIVE PathOf(_, _)
PathOf(ns, n) == IF n = 0 THEN {} ELSE {n} \cup PathOf(ns, ns[n].parent)

\* the nodes of the tree under the current root
Tree == {n \in Ids : root \in PathOf(nodes, n)}

NumAncestors(n) == Cardinality(PathOf(nodes, n)) - 1

IsLeaf(n) == nodes[n].children = <<>>

\* position of node c in the children of its parent
ChildIndex(c) ==
    LET kids == nodes[nodes[c].parent].children
    IN  CHOOSE i \in 1..Len(kids) : kids[i] = c

\* the node whose candidate the k-th simulation evaluated
SimulatedNode(ns, lg, k) == CHOOSE n \in 1..Len(ns) : ns[n].state = lg[k].out

\* this step is one simulate call
IsSimulateStep == Len(log') = Len(log) + 1

AllEvaluationsAre(rate, status) ==
    \A i \in 1..Len(sm) : sm[i].rate = rate /\ sm[i].status = status

\* ---- C1 ----
\* C1: in every state of a search run, every node of the tree has as many
\* reward samples as visits.
C1_SamplesEqualVisits ==
    \A n \in Tree : Len(nodes[n].reward_samples) = nodes[n].visits

\* ---- C2 ----
\* C2: mcts_trial returns a node only if the simulation of that node, the
\* last simulation run, produced reward exactly 1.0; and a simulation that
\* produces reward exactly 1.0 is the last one: the run is solved with that
\* child as its result and nothing is simulated after it.
C2_SuccessSignal ==
    /\ pc = "solved" =>
          /\ log # <<>>
          /\ log[Len(log)].score = FullScore
          /\ nodes[result].state = log[Len(log)].out
    /\ \A i \in 1..Len(log) :
          log[i].score = FullScore =>
             /\ i = Len(log)
             /\ pc = "solved"
             /\ result = SimulatedNode(nodes, log, i)

C2_Witness ==
    /\ pc = "solved"
    /\ Len(log) >= 3
    /\ ChildIndex(result) = 1
    /\ nodes[nodes[result].parent].children[2] \in Ids
    /\ nodes[nodes[nodes[result].parent].children[2]].reward_samples = <<>>

\* ---- C3 ----
\* C3: the reward of every simulation is given by the four-row table over
\* (sample success rate, full status), exactly one row applies to every
\* input, and that reward is the one recorded on the simulated node.
C3_Row(i, k) ==
    LET r == sm[i].rate
        st == sm[i].status
    IN  CASE k = 1 -> r = RateScale /\ st = "timeout"
          [] k = 2 -> r = RateScale /\ st # "timeout"
          [] k = 3 -> r < RateScale /\ st = "timeout"
          [] k = 4 -> r < RateScale /\ st # "timeout"

C3_RowReward(i, k) ==
    CASE k = 1 -> -20
      [] k = 2 -> 100
      [] k = 3 -> -20
      [] k = 4 -> sm[i].rate

C4_SelectFirstMax ==
    pc = "selected" =>
       LET kids == nodes[nodes[current].parent].children
           i == ChildIndex(current)
       IN  /\ (\E j \in 1..Len(kids) : nodes[kids[j]].visits = 0) =>
                 /\ nodes[current].visits = 0
                 /\ \A j \in 1..(i - 1) : nodes[kids[j]].visits > 0
           /\ \A j \in 1..(i - 1) :
                 Greater(ucb1(nodes, current), ucb1(nodes, kids[j]))
           /\ \A j \in (i + 1)..Len(kids) :
                 ~Greater(ucb1(nodes, kids[j]), ucb1(nodes, current))

\* the example of the claim: A with Q = 0.5 and visits = 3, B unvisited
C4_Witness ==
    /\ pc = "selected"
    /\ LET kids == nodes[nodes[current].parent].children
       IN  /\ Len(kids) = 2
           /\ nodes[kids[1]].visits = 3
           /\ nodes[kids[1]].Q = Frac(50, 1)
           /\ nodes[kids[2]].visits = 0
           /\ current = kids[2]

\* ---- C5 ----
\* C5: the backpropagation triggered by one simulate call of a node at depth
\* d adds 1 to visits and the reward to score on exactly the d + 1 nodes of
\* the node-to-root path, and leaves visits and score of every other node
\* unchanged.
C5_AdditiveWalk ==
    [][IsSimulateStep =>
         LET c == SimulatedNode(nodes', log', Len(log'))
             reward == log'[Len(log')].score
             path == PathOf(nodes, c)
         IN  /\ Cardinality(path) = nodes[c].depth + 1
             /\ \A n \in Ids :
                   IF n \in path
                   THEN /\ nodes'[n].visits = nodes[n].visits + 1
                        /\ nodes'[n].score = nodes[n].score + reward
                   ELSE /\ nodes'[n].visits = nodes[n].visits
                        /\ nodes'[n].score = nodes[n].score]_vars

\* ---- C6 ----
\* C6: the backpropagation of one simulate call appends the reward exactly
\* once to reward_samples of the node and of each ancestor up to the root,
\* leaves Q of each of them at (mean + min) / 2 of its samples, and changes
\* reward_samples and Q of no other node.
C6_SampleWalk ==
    [][IsSimulateStep =>
         LET c == SimulatedNode(nodes', log', Len(log'))
             reward == log'[Len(log')].score
             path == PathOf(nodes, c)
         IN  /\ root \in path
             /\ Cardinality(path) = nodes[c].depth + 1
             /\ \A n \in Ids :
                   IF n \in path
                   THEN LET after == nodes'[n].reward_samples
                        IN  /\ after = Append(nodes[n].reward_samples, reward)
                            /\ 2 * Len(after) * nodes'[n].Q.num =
                                  (SeqSum(after) + Len(after) * SeqMin(after))
                                     * nodes'[n].Q.den
                   ELSE /\ nodes'[n].reward_samples = nodes[n].reward_samples
                        /\ nodes'[n].Q = nodes[n].Q]_vars

\* a depth-3 node has been simulated and a sibling branch has fewer samples
C6_Witness ==
    \E n \in Tree, m \in Tree :
       /\ nodes[n].depth = 3
       /\ Len(nodes[n].reward_samples) = 1
       /\ Len(nodes[root].reward_samples) >= 5
       /\ m \notin PathOf(nodes, n)
       /\ nodes[m].depth = 1
       /\ Len(nodes[m].reward_samples) = 1

\* ---- C7 ----
\* C7: the root has depth 0 and no parent, and every other node has the depth
\* of its parent plus one, which is the number of its ancestors; also once
\* zero_shot_initialization has replaced the root.
C7_DepthIsAncestorCount ==
    /\ nodes[root].depth = 0
    /\ nodes[root].parent = 0
    /\ \A n \in Ids :
          /\ nodes[n].depth = NumAncestors(n)
          /\ nodes[n].parent # 0 =>
                nodes[n].depth = nodes[nodes[n].parent].depth + 1

C7_Witness ==
    /\ root = 2
    /\ \E n \in Tree : nodes[n].depth = 3 /\ NumAncestors(n) = 3

\* ---- C8 ----
\* C8: an expansion of a leaf at depth >= depth_limit adds no node and calls
\* no Generator; any other expansion calls the Generator once and appends
\* exactly 2 children, in completion order; and in every state no node is
\* deeper than depth_limit and every node has 0 or 2 children.
IsExpandStep == pc = "loop" /\ pc' = "simulate"

C8_ExpandStep ==
    IsExpandStep =>
       IF nodes[current].depth >= depth_limit
       THEN nodes' = nodes /\ calls' = calls /\ gen' = gen
       ELSE /\ calls' = Append(calls, "llm")
            /\ Len(nodes') = Len(nodes) + 2
            /\ nodes'[current].children = <<Len(nodes) + 1, Len(nodes) + 2>>
            /\ nodes'[Len(nodes) + 1].state = gen + 1
            /\ nodes'[Len(nodes) + 2].state = gen + 2
            /\ \A n \in Ids : n # current => nodes'[n] = nodes[n]

C8_Shape ==
    \A n \in Ids :
       /\ nodes[n].depth <= depth_limit
       /\ Len(nodes[n].children) \in {0, BranchingFactor}

C8_ExpandBounded == [](C8_Shape) /\ [][C8_ExpandStep]_vars

\* a leaf at the depth limit was handed to expand after a real expansion
C8_Witness ==
    /\ pc = "simulate"
    /\ depth_limit = 2
    /\ nodes[current].depth = 2
    /\ IsLeaf(current)
    /\ Len(nodes[root].children) = 2

\* ---- C9 ----
\* C9 as stated: with every evaluation (0.0, other-failure), max_steps = 3
\* and depth_limit > 1, the run ends with no solution after exactly 3 steps
\* and the tree has exactly 3 * 2 = 6 leaves at depth 1.
C9_Scenario ==
    /\ pc = "exhausted"
    /\ max_steps = 3
    /\ depth_limit > 1
    /\ AllEvaluationsAre(0, "other-failure")

C9_SixLeavesAtDepthOne ==
    C9_Scenario =>
       /\ step = 3
       /\ result = 0
       /\ Cardinality({n \in Tree : nodes[n].depth = 1 /\ IsLeaf(n)})
             = 3 * BranchingFactor

Min(a, b) == IF a < b THEN a ELSE b

\* C9 amended: in that scenario the run ends with no solution after exactly
\* 3 steps, and the tree has exactly 2 nodes at depth 1, one of them a leaf,
\* among 2 * min(3, depth_limit) nodes below the root.
C9_TwoNodesAtDepthOne ==
    C9_Scenario =>
       /\ step = 3
       /\ result = 0
       /\ Cardinality({n \in Tree : nodes[n].depth = 1}) = BranchingFactor
       /\ Cardinality({n \in Tree : nodes[n].depth = 1 /\ IsLeaf(n)}) = 1
       /\ Cardinality(Tree \ {root}) = BranchingFactor * Min(3, depth_limit)

C9_Witness == C9_Scenario /\ depth_limit = 3 /\ Len(sm) = 6

\* ---- C10 ----
\* C10: with depth_limit = 1 and every evaluation (1.0, ok), the run is
\* solved during the first step by the first simulation, and then the root
\* has visits >= 1 and the returned child has Q = 1.0.
C10_SolvedInFirstStep ==
    (pc = "solved" /\ depth_limit = 1 /\ AllEvaluationsAre(RateScale, "ok")) =>
       /\ step = 0
       /\ Len(log) = 1
       /\ nodes[result].parent = root
       /\ nodes[result].Q = Frac(FullScore, 1)
       /\ nodes[root].visits >= 1

\* ---- C11 ----
\* C11: the run terminates, in solved with a node of the tree as result or
\* in exhausted; it never runs more than max_steps steps, never raises, and
\* when exhausted it has run exactly max_steps steps and returns None.
Terminal == {"solved", "exhausted"}

C11_Terminates ==
    /\ <>(pc \in Terminal)
    /\ [](step <= max_steps /\ pc # "raised")
    /\ [](pc = "exhausted" => step = max_steps /\ result = 0)
    /\ [](pc = "solved" => step < max_steps /\ result \in Tree)
    /\ [][(pc \in Terminal) => (pc' = pc)]_vars

C11_Witness ==
    /\ pc = "exhausted"
    /\ max_steps = 3
    /\ step = 3
    /\ Len(log) = 6

\* ---- C12 ----
\* C12: no node is simulated more than once in a run, and every node a
\* descent selects has been simulated exactly once.
SimulationCount(n) ==
    Cardinality({i \in 1..Len(log) : log[i].out = nodes[n].state})

IsDescendStep == pc = "loop" /\ pc' = "loop" /\ current' # current

C12_NoReplay ==
    /\ [](\A n \in Ids : SimulationCount(n) <= 1)
    /\ [][IsDescendStep =>
            /\ nodes[current'].parent = current
            /\ SimulationCount(current') = 1]_vars

C12_Witness ==
    /\ pc = "loop"
    /\ nodes[current].depth = 2
    /\ IsLeaf(current)
    /\ SimulationCount(current) = 1
    /\ Len(log) = 4

\* ---- C13 ----
\* C13: when the run is solved, the siblings after the returned child in
\* the children of its parent are in the tree, never simulated, with
\* evaluation None and no reward sample, and the siblings before it have
\* been simulated exactly once.
C13_AbandonedSiblings ==
    pc = "solved" =>
       LET kids == nodes[nodes[result].parent].children
           i == ChildIndex(result)
       IN  /\ nodes[result].parent = current
           /\ i = idx
           /\ \A j \in 1..Len(kids) :
                 /\ j > i =>
                       /\ kids[j] \in Tree
                       /\ SimulationCount(kids[j]) = 0
                       /\ nodes[kids[j]].evaluation = <<>>
                       /\ nodes[kids[j]].reward_samples = <<>>
                 /\ j < i =>
                       /\ SimulationCount(kids[j]) = 1
                       /\ nodes[kids[j]].evaluation # <<>>
                       /\ Len(nodes[kids[j]].reward_samples) = 1

C13_Witness ==
    /\ pc = "solved"
    /\ nodes[result].depth = 2
    /\ ChildIndex(result) = 1
    /\ nodes[nodes[current].children[2]].evaluation = <<>>

\* ---- C14 ----
\* C14: once a step has been spent on a leaf at the depth limit, while steps
\* remain and the tree has a leaf with depth < depth_limit, the search goes
\* on to expand a leaf.
C14_OnCappedLeaf ==
    /\ pc = "simulate"
    /\ IsLeaf(current)
    /\ nodes[current].depth >= depth_limit
    /\ step + 1 < max_steps
    /\ \E n \in Tree : IsLeaf(n) /\ nodes[n].depth < depth_limit

C14_JustExpanded ==
    /\ pc = "simulate"
    /\ idx = 1
    /\ ~IsLeaf(current)
    /\ SimulationCount(nodes[current].children[1]) = 0

C14_CappedLeafLoses == C14_OnCappedLeaf ~> C14_JustExpanded

\* ---- C15 ----
\* C15: on every node Q is 0 while reward_samples is empty, and otherwise
\* 2 * len * Q = sum + len * min over the samples recorded on the node.
C15_QualityOfSamples ==
    \A n \in Ids :
       LET samples == nodes[n].reward_samples
           q == nodes[n].Q
       IN  /\ q.den > 0
           /\ IF samples = <<>>
              THEN q.num = 0
              ELSE 2 * Len(samples) * q.num =
                      (SeqSum(samples) + Len(samples) * SeqMin(samples)) * q.den

\* mean 40/3, min -20: Q = -10/3
C15_Witness ==
    /\ nodes[root].reward_samples = <<60, -20, 0>>
    /\ nodes[root].Q = [num |-> -10, den |-> 3]

\* ---- C16 ----
\* C16: initialization makes exactly the calls Generator, retrieval,
\* Generator before anything else; the second candidate is the root's state;
\* when searching begins the root has no children, no samples and visits 0;
\* the root is never simulated and its evaluation stays None.
C16_Initializing ==
    /\ pc = "init" => calls = <<>> /\ log = <<>> /\ Len(nodes) = 1
    /\ pc # "init" =>
          /\ Len(calls) >= 3
          /\ SubSeq(calls, 1, 3) = <<"llm", "rag", "llm">>
          /\ \A i \in 4..Len(calls) : calls[i] # "rag"
          /\ nodes[root].state = 2
          /\ nodes[root].parent = 0
          /\ nodes[root].evaluation = <<>>
          /\ SimulationCount(root) = 0
    /\ (pc = "loop" /\ step = 0 /\ current = root /\ Len(calls) = 3) =>
          /\ nodes[root].children = <<>>
          /\ nodes[root].reward_samples = <<>>
          /\ nodes[root].visits = 0

C16_Witness ==
    /\ pc = "exhausted"
    /\ Len(nodes[root].reward_samples) = 4
    /\ nodes[root].evaluation = <<>>

\* ---- C17 ----
\* C17: the history entries of the Generator context are in root-to-child
\* order and the evaluation text of each entry is at most 203 characters
\* long.
C17_FeedbackBounded ==
    \A i \in 2..(Len(prompt) - 1) :
       /\ nodes[prompt[i].node].depth = i - 1
       /\ prompt[i].evaluation_len <= 203

\* ---- C18 ----
\* C18: a simulation whose Worker returns the empty artifact, the Evaluator
\* reporting (0, other-failure), still calls the Evaluator, registers the
\* empty artifact, backpropagates reward 0 from the child to the root, sets
\* the child's evaluation, and the loop goes on with the next child.
C18_EmptyArtifactScored ==
    [][(/\ IsSimulateStep
        /\ sm'[Len(sm')].code = 0
        /\ sm'[Len(sm')].rate = 0
        /\ sm'[Len(sm')].status = "other-failure") =>
         LET c == nodes[current].children[idx]
         IN  /\ calls' = calls \o <<"fast_llm", "eval">>
             /\ Len(sm') = Len(sm) + 1
             /\ log'[Len(log')] = [out |-> nodes[c].state, score |-> 0]
             /\ nodes'[c].reward_samples = <<0>>
             /\ nodes'[c].evaluation # <<>>
             /\ nodes'[root].reward_samples = Append(nodes[root].reward_samples, 0)
             /\ pc' = "simulate"
             /\ idx' = idx + 1
             /\ result' = result]_vars

C18_Witness ==
    /\ pc = "simulate"
    /\ idx = 2
    /\ sm # <<>>
    /\ sm[Len(sm)].code = 0
    /\ log[Len(log)].score = 0
    /\ nodes[nodes[current].children[1]].reward_samples = <<0>>

\* ---- C19 ----
\* C19: every node but the roots has a parent and occurs exactly once in the
\* children lists, in that of its parent; and a step of the search removes
\* no node, keeps every parent and every existing children prefix, keeps the
\* root, and adds nodes only when it is an expansion.
Occurrences(n) ==
    UNION { { <<p, j>> : j \in {k \in 1..Len(nodes[p].children) :
                                  nodes[p].children[k] = n} } : p \in Ids }

C19_Attached ==
    \A n \in Ids :
       IF n \in {1, root}
       THEN nodes[n].parent = 0 /\ Occurrences(n) = {}
       ELSE /\ nodes[n].parent # 0
            /\ Cardinality(Occurrences(n)) = 1
            /\ \A pi \in Occurrences(n) : pi[1] = nodes[n].parent

C19_StepAppends ==
    pc # "init" =>
       /\ root' = root
       /\ Len(nodes') >= Len(nodes)
       /\ (Len(nodes') > Len(nodes) => IsExpandStep)
       /\ \A n \in Ids :
             /\ nodes'[n].parent = nodes[n].parent
             /\ nodes'[n].state = nodes[n].state
             /\ Len(nodes'[n].children) >= Len(nodes[n].children)
             /\ SubSeq(nodes'[n].children, 1, Len(nodes[n].children))
                   = nodes[n].children

C19_AppendOnly == [](C19_Attached) /\ [][C19_StepAppends]_vars

C19_Witness ==
    /\ pc = "exhausted"
    /\ Len(nodes) = 8
    /\ Cardinality(Tree) = 7

\* ---- C20 ----
\* C20: in every state of a search run every node has visits = 0 and score
\* = 0, so the priority of every node is +infinity, and every selection
\* returns the first child.
C20_Unvisited ==
    \A n \in Ids :
       /\ nodes[n].visits = 0
       /\ nodes[n].score = 0
       /\ ucb1(nodes, n).inf

C20_SelectsFirstChild ==
    /\ [](C20_Unvisited)
    /\ [][IsDescendStep => current' = nodes[current].children[1]]_vars

\* the second descent, below a first child whose sibling scored higher
C20_Witness ==
    /\ pc = "loop"
    /\ nodes[current].depth = 2
    /\ ChildIndex(current) = 1
    /\ nodes[root].reward_samples = <<0, 60, 0, 60>>

\* ---- C21 ----
\* C21: the nodes that have children are the root and first children only;
\* the current node only ever changes to one of its own children, in a
\* descent; at most min(steps run, depth_limit) nodes are expanded; and once
\* the current node is a leaf at depth = depth_limit no later step creates a
\* node, runs a simulation or moves the current node.
StepsRun == IF pc \in {"simulate", "solved"} THEN step + 1 ELSE step

Expanded == {n \in Tree : ~IsLeaf(n)}

C21_Chain ==
    /\ \A n \in Expanded : n = root \/ ChildIndex(n) = 1
    /\ Cardinality(Expanded) <= Min(StepsRun, depth_limit)
    /\ pc # "init" =>
          /\ current \in Tree
          /\ current = root \/ ChildIndex(current) = 1
          /\ Cardinality(Expanded) \in
                {nodes[current].depth, nodes[current].depth + 1}

C21_OnCappedLeaf ==
    /\ pc # "init"
    /\ IsLeaf(current)
    /\ nodes[current].depth = depth_limit

C21_Step ==
    /\ (pc # "init" /\ current' # current) =>
          /\ IsDescendStep
          /\ nodes[current'].parent = current
    /\ C21_OnCappedLeaf =>
          /\ nodes' = nodes
          /\ log' = log
          /\ sm' = sm
          /\ calls' = calls
          /\ current' = current

C21_SingleChain == [](C21_Chain) /\ [][C21_Step]_vars

\* two steps spent on the capped first child of the root
C21_Witness ==
    /\ pc = "exhausted"
    /\ depth_limit = 1
    /\ step = 3
    /\ nodes[current].depth = 1
    /\ ChildIndex(current) = 1
    /\ Len(log) = 2

\* ---- C22 ----
\* C22: on every node of the tree the number of reward samples is the number
\* of simulated nodes in its subtree; the root has one sample per simulation
\* of the run; and a node's number of samples is the sum over its children
\* plus 1 when the node itself has been simulated.
SimulatedBelow(n) ==
    {m \in Tree : n \in PathOf(nodes, m) /\ SimulationCount(m) >= 1}

RECURSIVE SamplesOf(_)
SamplesOf(kids) ==
    IF kids = <<>> THEN 0
    ELSE Len(nodes[Head(kids)].reward_samples) + SamplesOf(Tail(kids))

C22_SamplesCountSubtree ==
    /\ \A n \in Tree :
          /\ Len(nodes[n].reward_samples) = Cardinality(SimulatedBelow(n))
          /\ Len(nodes[n].reward_samples) =
                SamplesOf(nodes[n].children)
                   + (IF SimulationCount(n) >= 1 THEN 1 ELSE 0)
    /\ pc # "init" => Len(nodes[root].reward_samples) = Len(log)

\* a simulated child whose two children have been simulated as well
C22_Witness ==
    /\ pc = "simulate"
    /\ nodes[current].depth = 1
    /\ SimulationCount(current) = 1
    /\ Len(nodes[current].reward_samples) = 3
    /\ Len(nodes[root].reward_samples) = 4
====
